---- MODULE Spec2Model ----
(***************************************************************************)
(* A model of file_analysis_mcp/server.py: the three tools analyze_text,   *)
(* read_file and list_files.                                               *)
(*                                                                         *)
(* A text is a sequence of Unicode code points (Python's str).  The        *)
(* character classes below are those of CPython for the code points of     *)
(* CodePoints; texts are drawn from that set only.                         *)
(***************************************************************************)
EXTENDS Integers, Sequences, FiniteSets

\* ------------------------------------------------------------------ bounds

\* Longest text enumerated exhaustively over CoreAlphabet.
MaxLen == 3
\* Number of concurrent callers of analyze_text.
NumCallers == 2
\* Largest table size a caller may pass (the contract's topN); the smallest is -1.
MaxTopN == 1
\* Number of entry names a listed directory may hold.
NumNames == 2

\* --------------------------------------------------------- code points

Min(a, b) == IF a <= b THEN a ELSE b

\* Code points at which str.splitlines() breaks a line (CR LF breaks once).
LineBreaks == {10, 11, 12, 13, 28, 29, 30, 133, 8232, 8233}

\* Code points str.split() treats as whitespace (str.isspace), within CodePoints.
Whitespace == {9, 10, 11, 12, 13, 28, 29, 30, 31, 32, 133, 8232, 8233}

\* ASCII letters, digits and underscore, and U+0130 (LATIN CAPITAL LETTER I WITH
\* DOT ABOVE): the code points of CodePoints that the pattern \w matches. U+0307
\* (COMBINING DOT ABOVE, 775) is a mark, not a word character.
WordChars == (48..57) \cup (65..90) \cup (97..122) \cup {95, 304}

\* The code points texts are made of: ASCII, NEL, U+0130, U+0307, LS and PS.
CodePoints == (0..127) \cup {133, 304, 775, 8232, 8233}

\* Every text enumerated exhaustively is made of these: A a b U+0130 U+0307
\* space LF CR FF and the full stop.
CoreAlphabet == {65, 97, 98, 304, 775, 32, 10, 13, 12, 46}

\* ------------------------------------------------------- str operations

\* str.lower() of one code point: ASCII capitals map to their small letter,
\* U+0130 maps to the two code points "i" + U+0307, everything else of
\* CodePoints is unchanged.
lower_char(c) ==
  IF c \in 65..90 THEN <<c + 32>>
  ELSE IF c = 304 THEN <<105, 775>>
  ELSE <<c>>

RECURSIVE lower(_)
lower(s) == IF s = <<>> THEN <<>> ELSE lower_char(Head(s)) \o lower(Tail(s))

\* str.split(): the maximal runs of non-whitespace code points.
RECURSIVE SplitFrom(_, _, _, _)
SplitFrom(s, i, start, acc) ==
  IF i > Len(s)
    THEN IF start < i THEN Append(acc, SubSeq(s, start, i - 1)) ELSE acc
  ELSE IF s[i] \in Whitespace
    THEN SplitFrom(s, i + 1, i + 1,
                   IF start < i THEN Append(acc, SubSeq(s, start, i - 1)) ELSE acc)
  ELSE SplitFrom(s, i + 1, start, acc)

split(s) == SplitFrom(s, 1, 1, <<>>)

\* str.splitlines(): scan for a line break; CR followed by LF is one break; the
\* rest after the last break is a line only when it is not empty.
RECURSIVE SplitLinesFrom(_, _, _, _)
SplitLinesFrom(s, i, start, acc) ==
  IF i > Len(s)
    THEN IF start <= Len(s) THEN Append(acc, SubSeq(s, start, Len(s))) ELSE acc
  ELSE IF s[i] \in LineBreaks
    THEN LET eol == IF s[i] = 13 /\ i < Len(s) /\ s[i + 1] = 10 THEN i + 1 ELSE i
         IN  SplitLinesFrom(s, eol + 1, eol + 1, Append(acc, SubSeq(s, start, i - 1)))
  ELSE SplitLinesFrom(s, i + 1, start, acc)

splitlines(s) == SplitLinesFrom(s, 1, 1, <<>>)

\* ------------------------------------------------ re.findall(r'\b\w+\b')

\* \b at offset p (0..Len(s)): exactly one of the neighbours is a word character.
IsBoundary(s, p) ==
  LET before == p >= 1 /\ s[p] \in WordChars
      after  == p < Len(s) /\ s[p + 1] \in WordChars
  IN  before # after

\* The offset where the greedy \w+ started at offset p stops.
RECURSIVE RunEnd(_, _)
RunEnd(s, p) == IF p < Len(s) /\ s[p + 1] \in WordChars THEN RunEnd(s, p + 1) ELSE p

\* The match of \b\w+\b attempted at offset p: its end offset, or -1. \w+ takes
\* the longest run and gives characters back until the closing \b holds.
MatchAt(s, p) ==
  IF ~IsBoundary(s, p) THEN -1
  ELSE LET ends == {q \in (p + 1)..RunEnd(s, p) : IsBoundary(s, q)}
       IN  IF ends = {} THEN -1 ELSE CHOOSE q \in ends : \A r \in ends : r <= q

\* findall: leftmost matches, non-overlapping, resuming where the last one ended.
RECURSIVE FindAllFrom(_, _, _)
FindAllFrom(s, p, acc) ==
  IF p >= Len(s) THEN acc
  ELSE LET m == MatchAt(s, p)
       IN  IF m = -1 THEN FindAllFrom(s, p + 1, acc)
           ELSE FindAllFrom(s, m, Append(acc, SubSeq(s, p + 1, m)))

findall(s) == FindAllFrom(s, 0, <<>>)

\* ---------------------------------------------------- collections.Counter

\* A Counter (and the dict made of it) is the sequence of its <<key, count>>
\* items in insertion order, which is the order of first occurrence.
CounterAdd(c, k) ==
  IF \E i \in 1..Len(c) : c[i][1] = k
    THEN [i \in 1..Len(c) |-> IF c[i][1] = k THEN <<k, c[i][2] + 1>> ELSE c[i]]
    ELSE Append(c, <<k, 1>>)

RECURSIVE CounterFrom(_, _)
CounterFrom(c, s) == IF s = <<>> THEN c ELSE CounterFrom(CounterAdd(c, Head(s)), Tail(s))

Counter(s) == CounterFrom(<<>>, s)

\* A plausible slip: items of equal count come out in reverse insertion order.
InsertDescUnstable(sorted, x) ==
  LET k == Cardinality({i \in 1..Len(sorted) : sorted[i][2] > x[2]})
  IN  SubSeq(sorted, 1, k) \o <<x>> \o SubSeq(sorted, k + 1, Len(sorted))

\* Insert item x behind every item whose count is at least x's: with the items
\* taken in insertion order this is sorted(items, key=count, reverse=True),
\* which keeps items of equal count in their original order.
InsertDesc(sorted, x) ==
  LET k == Cardinality({i \in 1..Len(sorted) : sorted[i][2] >= x[2]})
  IN  SubSeq(sorted, 1, k) \o <<x>> \o SubSeq(sorted, k + 1, Len(sorted))

RECURSIVE SortedDesc(_, _)
SortedDesc(sorted, items) ==
  IF items = <<>> THEN sorted
  ELSE SortedDesc(InsertDesc(sorted, Head(items)), Tail(items))

\* Counter.most_common(n) = heapq.nlargest(n, items, key=count): the first n of
\* the items sorted by descending count, none when n <= 0.
most_common(c, n) ==
  IF n <= 0 THEN <<>> ELSE SubSeq(SortedDesc(<<>>, c), 1, Min(n, Len(c)))

\* ----------------------------------------------------------- analyze_text

\* The literal of most_common(10).
TopWordsLimit == 10

\* len(text.lower()): what the count would be if taken on the lower-cased text.
char_count_lowered(text) == Len(lower(text))

char_count(text) == Len(text)

\* len(text.split(" ")): a slip that cuts at every single space and keeps the
\* empty pieces, so that the empty text has one word.
word_count_split_space(text) == Cardinality({i \in 1..Len(text) : text[i] = 32}) + 1

word_count(text) == Len(split(text))

\* len(text.split("\n")): a slip that counts the empty piece after a final LF and
\* knows no other line break.
line_count_split(text) == Cardinality({i \in 1..Len(text) : text[i] = 10}) + 1

line_count(text) == Len(splitlines(text))

char_freq(text) == Counter(lower(text))

words(text) == findall(lower(text))

word_freq(text) == most_common(Counter(words(text)), TopWordsLimit)

analyze_text(text) ==
  [statistics |-> [character_count |-> char_count(text),
                   word_count |-> word_count(text),
                   line_count |-> line_count(text)],
   character_frequency |-> char_freq(text),
   top_words |-> word_freq(text)]

\* ------------------------------------------------------------ input texts

SeqsUpTo(S, n) == UNION {[1..k -> S] : k \in 0..n}

\* "The the THE cat", "a LF b LF" and "a LF b".
ExampleTexts ==
  {<<84, 104, 101, 32, 116, 104, 101, 32, 84, 72, 69, 32, 99, 97, 116>>,
   <<97, 10, 98, 10>>, <<97, 10, 98>>}

\* Around every line break of splitlines, and around TAB and US (whitespace that
\* breaks no line): "a c b", "a c", "c", "a c c" and "a c b c".
BreakTexts ==
  UNION {{<<97, c, 98>>, <<97, c>>, <<c>>, <<97, c, c>>, <<97, c, 98, c>>} :
           c \in LineBreaks \cup {9, 31}}

\* Twelve one-letter words, "b c d e f g h i j k l m".
RECURSIVE Spaced(_)
Spaced(ws) ==
  IF Len(ws) = 0 THEN <<>>
  ELSE IF Len(ws) = 1 THEN <<ws[1]>>
  ELSE <<ws[1], 32>> \o Spaced(Tail(ws))

Letters == 98..109

TwelveWords == Spaced([i \in 1..12 |-> 97 + i])

\* More than ten distinct words with ties: the twelve words followed, or
\* preceded, by two more occurrences "x y" of words among them.
ManyWordTexts ==
  {TwelveWords} \cup
  UNION {{TwelveWords \o <<32, x, 32, y>>, <<x, 32, y, 32>> \o TwelveWords} :
           x \in Letters, y \in Letters}

Texts == SeqsUpTo(CoreAlphabet, MaxLen) \cup ExampleTexts \cup BreakTexts \cup ManyWordTexts

\* ------------------------------------------------------------------ state

VARIABLES
  text,     \* the argument of the one call of analyze_text
  pc,       \* "called" until the call returns, then "returned"
  result,   \* the value returned
  log,      \* the calls one client made: arguments passed, outcome and result
  ctext,    \* per caller: the argument of its call in progress
  cpc,      \* per caller: "idle", the line it is about to run, or "done"
  frame,    \* per frame: the local variables of analyze_text
  cresult,  \* per caller: the value its last call returned
  overlap,  \* per caller: a statement of another call ran during its call
  kind,     \* the filesystem: what is at the path given to read_file or list_files
  entries,  \* the filesystem: what each name is inside that path, when a directory
  tool,     \* the file tool called: "read_file" or "list_files" ("none" before)
  fpc,      \* the line that call is about to run, "idle" or "done"
  opened,   \* read_file: the file object f, by what its file now decodes to
  linked,   \* read_file: the path still names the file that f has open
  contents, \* list_files: the local variable contents
  idx,      \* list_files: how many items the running comprehension has tested
  files,    \* list_files: the local variable files
  dirs,     \* list_files: the local variable dirs
  ret,      \* the value the file tool returned (NoValue before)
  raised    \* the exception that left the file tool ("none" when none did)

textVars == <<text, pc, result>>
callerVars == <<ctext, cpc, frame, cresult, overlap>>
fsVars == <<kind, entries>>
toolVars == <<tool, fpc, opened, linked, contents, idx, files, dirs, ret, raised>>

vars == <<textVars, log, callerVars, fsVars, toolVars>>

Callers == 1..NumCallers

\* Before the return there is no result.
Unset == [statistics |-> [character_count |-> -1, word_count |-> -1, line_count |-> -1],
          character_frequency |-> <<>>, top_words |-> <<>>]

\* ------------------------------------------------- one call of analyze_text

\* The local variables of a call that has run no statement yet.
NoLocals == [char_count |-> -1, word_count |-> -1, line_count |-> -1,
             char_freq |-> <<>>, words |-> <<>>, word_freq |-> <<>>]

\* No client and no caller: the part of the state a specification does not use.
NoClient == log = <<>>

NoCallers ==
  /\ ctext = [c \in Callers |-> <<>>]
  /\ cpc = [c \in Callers |-> "idle"]
  /\ frame = [c \in Callers |-> NoLocals]
  /\ cresult = [c \in Callers |-> Unset]
  /\ overlap = [c \in Callers |-> FALSE]

NoCall == text = <<>> /\ pc = "idle" /\ result = Unset

Names == 1..NumNames

\* What ret holds while the file tool has returned nothing.
NoValue == [nothing |-> "none"]

NoFiles ==
  /\ kind = "missing"
  /\ entries = [n \in Names |-> "absent"]
  /\ tool = "none"
  /\ fpc = "idle"
  /\ opened = "none"
  /\ linked = FALSE
  /\ contents = <<>>
  /\ idx = 0
  /\ files = <<>>
  /\ dirs = <<>>
  /\ ret = NoValue
  /\ raised = "none"

InitText ==
  /\ text \in Texts
  /\ pc = "called"
  /\ result = Unset
  /\ NoClient
  /\ NoCallers
  /\ NoFiles

AnalyzeText ==
  /\ pc = "called"
  /\ result' = analyze_text(text)
  /\ pc' = "returned"
  /\ UNCHANGED <<text, log, callerVars, fsVars, toolVars>>

NextText == AnalyzeText

Spec == InitText /\ [][NextText]_vars

\* ---------------------------------- a client that wants a table of size topN

\* The table sizes a client may pass: the contract's topN, negative included.
WantedSizes == (-1)..MaxTopN

\* "", "b a b", "a b c" and "A a LF b".
FewTexts == {<<>>, <<98, 32, 97, 32, 98>>, <<97, 32, 98, 32, 99>>, <<65, 32, 97, 10, 98>>}

\* Calls one client makes.
MaxCalls == 2

InitClient ==
  /\ NoCall
  /\ log = <<>>
  /\ NoCallers
  /\ NoFiles

\* analyze_text(t, n) or analyze_text(t, topN=n): the signature is
\* analyze_text(text), so binding the arguments raises TypeError, whatever n
\* is; the body does not run and nothing is returned.
ClientCall(t, n) ==
  /\ Len(log) < MaxCalls
  /\ log' = Append(log, [text |-> t, given |-> TRUE, topN |-> n,
                         outcome |-> "TypeError", result |-> Unset])
  /\ UNCHANGED <<textVars, callerVars, fsVars, toolVars>>

\* analyze_text(t): the one call the signature accepts; the table size is the
\* literal of most_common(10).
ClientCallText(t) ==
  /\ Len(log) < MaxCalls
  /\ log' = Append(log, [text |-> t, given |-> FALSE, topN |-> TopWordsLimit,
                         outcome |-> "returned", result |-> analyze_text(t)])
  /\ UNCHANGED <<textVars, callerVars, fsVars, toolVars>>

NextClient ==
  \/ \E t \in FewTexts, n \in WantedSizes : ClientCall(t, n)
  \/ \E t \in FewTexts : ClientCallText(t)

SpecClient == InitClient /\ [][NextClient]_vars

\* ------------------------------------------- concurrent calls, by statement

\* All calls would share one set of variables were they module-level globals.
FrameOfShared(c) == 1

\* The local variables of a call are its own.
FrameOf(c) == c

InitCallers ==
  /\ NoCall
  /\ NoClient
  /\ NoCallers
  /\ NoFiles

\* A statement of caller c has run: every other call in progress was overlapped.
Overlapped(c) ==
  [d \in Callers |-> IF d # c /\ cpc[d] \notin {"idle", "done"} THEN TRUE ELSE overlap[d]]

\* Caller c runs the statement named by cpc[c], which assigns field f of its
\* frame from its argument, and goes on to line next.
Assign(c, at, f, v, next) ==
  /\ cpc[c] = at
  /\ frame' = [frame EXCEPT ![FrameOf(c)][f] = v]
  /\ cpc' = [cpc EXCEPT ![c] = next]
  /\ overlap' = Overlapped(c)
  /\ UNCHANGED <<textVars, log, ctext, cresult, fsVars, toolVars>>

Call(c, t) ==
  /\ cpc[c] \in {"idle", "done"}
  /\ ctext' = [ctext EXCEPT ![c] = t]
  /\ cpc' = [cpc EXCEPT ![c] = "l25"]
  /\ frame' = [frame EXCEPT ![FrameOf(c)] = NoLocals]
  /\ cresult' = [cresult EXCEPT ![c] = Unset]
  /\ overlap' = [Overlapped(c) EXCEPT ![c] = FALSE]
  /\ UNCHANGED <<textVars, log, fsVars, toolVars>>

Line25(c) == Assign(c, "l25", "char_count", char_count(ctext[c]), "l26")

Line26(c) == Assign(c, "l26", "word_count", word_count(ctext[c]), "l27")

Line27(c) == Assign(c, "l27", "line_count", line_count(ctext[c]), "l30")

Line30(c) == Assign(c, "l30", "char_freq", char_freq(ctext[c]), "l34")

Line34(c) == Assign(c, "l34", "words", words(ctext[c]), "l35")

Line35(c) ==
  Assign(c, "l35", "word_freq",
         most_common(Counter(frame[FrameOf(c)].words), TopWordsLimit), "l37")

Return(c) ==
  /\ cpc[c] = "l37"
  /\ cresult' = [cresult EXCEPT ![c] =
       [statistics |-> [character_count |-> frame[FrameOf(c)].char_count,
                        word_count |-> frame[FrameOf(c)].word_count,
                        line_count |-> frame[FrameOf(c)].line_count],
        character_frequency |-> frame[FrameOf(c)].char_freq,
        top_words |-> frame[FrameOf(c)].word_freq]]
  /\ cpc' = [cpc EXCEPT ![c] = "done"]
  /\ overlap' = Overlapped(c)
  /\ UNCHANGED <<textVars, log, ctext, frame, fsVars, toolVars>>

NextCallers ==
  \E c \in Callers :
    \/ \E t \in FewTexts : Call(c, t)
    \/ Line25(c)
    \/ Line26(c)
    \/ Line27(c)
    \/ Line30(c)
    \/ Line34(c)
    \/ Line35(c)
    \/ Return(c)

SpecCallers == InitCallers /\ [][NextCallers]_vars

\* ------------------------------------------- read_file and list_files

\* What may be at a path: nothing, a UTF-8 text file, a file the process may not
\* open, a file that is not UTF-8, a directory, a directory the process may
\* neither list nor search.
PathKinds == {"missing", "file", "file_noperm", "file_notutf8", "dir", "dir_noperm"}

EntryKinds == {"absent", "file", "dir"}

\* The exceptions open, read and os.listdir raise here; each is a subclass of
\* Exception.
Exceptions == {"FileNotFoundError", "IsADirectoryError", "NotADirectoryError",
               "PermissionError", "UnicodeDecodeError"}

\* "except OSError as e": UnicodeDecodeError is a ValueError, not an OSError.
CatchesOSError(exc) == exc # "UnicodeDecodeError"

\* "except Exception as e" catches every one of them.
Catches(exc) == exc \in Exceptions

\* os.path.exists(path): os.stat succeeds.
exists == kind # "missing"

\* os.path.isfile(os.path.join(directory, n)), os.path.isdir likewise: os.stat
\* of the entry, False when it fails.
isfile(n) == kind = "dir" /\ entries[n] = "file"

isdir(n) == kind = "dir" /\ entries[n] = "dir"

\* The orders in which os.listdir may return the names of S.
Orderings(S) ==
  {q \in [1..Cardinality(S) -> S] : \A i, j \in 1..Cardinality(S) : q[i] = q[j] => i = j}

InitFiles ==
  /\ NoCall
  /\ NoClient
  /\ NoCallers
  /\ kind \in PathKinds
  /\ entries \in [Names -> EntryKinds]
  /\ tool = "none"
  /\ fpc = "idle"
  /\ opened = "none"
  /\ linked = FALSE
  /\ contents = <<>>
  /\ idx = 0
  /\ files = <<>>
  /\ dirs = <<>>
  /\ ret = NoValue
  /\ raised = "none"

others == <<textVars, log, callerVars>>

\* Another process replaces what is at the path (a file that f has open lives
\* on, no longer named by the path), or one entry inside it.
EnvSetKind(k) ==
  /\ kind # k
  /\ kind' = k
  /\ linked' = FALSE
  /\ UNCHANGED <<entries, tool, fpc, opened, contents, idx, files, dirs, ret, raised,
                 others>>

\* Another process rewrites the bytes of the file at the path in place: when f
\* has that file open, f.read() will decode the new bytes.
EnvRewriteInPlace(k) ==
  /\ kind \in {"file", "file_notutf8"}
  /\ k \in {"file", "file_notutf8"}
  /\ kind # k
  /\ kind' = k
  /\ opened' = IF linked THEN k ELSE opened
  /\ UNCHANGED <<entries, tool, fpc, linked, contents, idx, files, dirs, ret, raised,
                 others>>

\* Another process rewrites the bytes of the file f has open, which the path no
\* longer names.
EnvRewriteOpened(k) ==
  /\ opened \in {"file", "file_notutf8"}
  /\ ~linked
  /\ k \in {"file", "file_notutf8"}
  /\ opened # k
  /\ opened' = k
  /\ UNCHANGED <<fsVars, tool, fpc, linked, contents, idx, files, dirs, ret, raised,
                 others>>

EnvSetEntry(n, e) ==
  /\ entries[n] # e
  /\ entries' = [entries EXCEPT ![n] = e]
  /\ UNCHANGED <<kind, toolVars, others>>

\* The tool is called with the path.
CallTool(t, first) ==
  /\ fpc \in {"idle", "done"}
  /\ tool' = t
  /\ fpc' = first
  /\ opened' = "none"
  /\ linked' = FALSE
  /\ contents' = <<>>
  /\ idx' = 0
  /\ files' = <<>>
  /\ dirs' = <<>>
  /\ ret' = NoValue
  /\ raised' = "none"
  /\ UNCHANGED <<fsVars, others>>

\* The with block, if entered, closes f.
Closes == opened' = "none" /\ linked' = FALSE

\* The call ends returning v.
Returns(v) ==
  /\ ret' = v
  /\ fpc' = "done"
  /\ Closes
  /\ UNCHANGED <<tool, contents, idx, files, dirs, raised, fsVars, others>>

\* exc is raised inside the try block: the except clause returns the message
\* made of it when it catches it, else exc leaves the tool.
Raises(exc, message) ==
  /\ fpc' = "done"
  /\ IF Catches(exc)
       THEN ret' = message /\ raised' = "none"
       ELSE ret' = NoValue /\ raised' = exc
  /\ Closes
  /\ UNCHANGED <<tool, contents, idx, files, dirs, fsVars, others>>

Goes(next) ==
  /\ fpc' = next
  /\ UNCHANGED <<tool, opened, linked, contents, idx, files, dirs, ret, raised, fsVars,
                 others>>

ReadFileCall == CallTool("read_file", "r58")

\* if not os.path.exists(file_path): return "Error: File not found at ..."
ReadFile58 ==
  /\ fpc = "r58"
  /\ IF exists THEN Goes("r62") ELSE Returns([error_string |-> "Error: File not found at"])

\* with open(file_path, 'r', encoding='utf-8') as f:
ReadFile62 ==
  /\ fpc = "r62"
  /\ CASE kind = "missing" ->
            Raises("FileNotFoundError",
                   [error_string |-> "Error reading file: FileNotFoundError"])
       [] kind = "dir" ->
            Raises("IsADirectoryError",
                   [error_string |-> "Error reading file: IsADirectoryError"])
       [] kind \in {"file_noperm", "dir_noperm"} ->
            Raises("PermissionError",
                   [error_string |-> "Error reading file: PermissionError"])
       [] kind \in {"file", "file_notutf8"} ->
            /\ opened' = kind
            /\ linked' = TRUE
            /\ fpc' = "r63"
            /\ UNCHANGED <<tool, contents, idx, files, dirs, ret, raised, fsVars, others>>

\* return f.read(): the bytes the file holds now are read and decoded.
ReadFile63 ==
  /\ fpc = "r63"
  /\ IF opened = "file"
       THEN Returns([file_contents |-> "text"])
       ELSE Raises("UnicodeDecodeError",
                   [error_string |-> "Error reading file: UnicodeDecodeError"])

ListFilesCall == CallTool("list_files", "l78")

\* if not os.path.exists(directory): return {"error": "Directory not found: ..."}
ListFiles78 ==
  /\ fpc = "l78"
  /\ IF exists THEN Goes("l82") ELSE Returns([error |-> "Directory not found:"])

\* contents = os.listdir(directory)
ListFiles82 ==
  /\ fpc = "l82"
  /\ CASE kind = "missing" ->
            Raises("FileNotFoundError",
                   [error |-> "Error listing directory: FileNotFoundError"])
       [] kind \in {"file", "file_noperm", "file_notutf8"} ->
            Raises("NotADirectoryError",
                   [error |-> "Error listing directory: NotADirectoryError"])
       [] kind = "dir_noperm" ->
            Raises("PermissionError",
                   [error |-> "Error listing directory: PermissionError"])
       [] kind = "dir" ->
            /\ contents' \in Orderings({n \in Names : entries[n] # "absent"})
            /\ fpc' = "l83"
            /\ idx' = 0
            /\ UNCHANGED <<tool, opened, linked, files, dirs, ret, raised, fsVars, others>>

\* files = [item for item in contents if os.path.isfile(...)], one item a step
ListFiles83 ==
  /\ fpc = "l83"
  /\ IF idx < Len(contents)
       THEN /\ idx' = idx + 1
            /\ files' = IF isfile(contents[idx + 1])
                          THEN Append(files, contents[idx + 1]) ELSE files
            /\ UNCHANGED <<fpc, dirs>>
       ELSE /\ idx' = 0
            /\ fpc' = "l84"
            /\ UNCHANGED <<files, dirs>>
  /\ UNCHANGED <<tool, opened, linked, contents, ret, raised, fsVars, others>>

\* dirs = [item for item in contents if os.path.isdir(...)], one item a step
ListFiles84 ==
  /\ fpc = "l84"
  /\ IF idx < Len(contents)
       THEN /\ idx' = idx + 1
            /\ dirs' = IF isdir(contents[idx + 1])
                         THEN Append(dirs, contents[idx + 1]) ELSE dirs
            /\ UNCHANGED <<fpc, files>>
       ELSE /\ idx' = 0
            /\ fpc' = "l86"
            /\ UNCHANGED <<files, dirs>>
  /\ UNCHANGED <<tool, opened, linked, contents, ret, raised, fsVars, others>>

\* return {"files": files, "directories": dirs}
ListFiles86 ==
  /\ fpc = "l86"
  /\ Returns([files |-> files, directories |-> dirs])

NextFiles ==
  \/ \E k \in PathKinds : EnvSetKind(k)
  \/ \E k \in PathKinds : EnvRewriteInPlace(k)
  \/ \E k \in PathKinds : EnvRewriteOpened(k)
  \/ \E n \in Names, e \in EntryKinds : EnvSetEntry(n, e)
  \/ ReadFileCall
  \/ ReadFile58
  \/ ReadFile62
  \/ ReadFile63
  \/ ListFilesCall
  \/ ListFiles78
  \/ ListFiles82
  \/ ListFiles83
  \/ ListFiles84
  \/ ListFiles86

SpecFiles == InitFiles /\ [][NextFiles]_vars

\* ============================================================ the claims
\* ------------------------------------------- what the claims speak about

RECURSIVE SumCounts(_)
SumCounts(c) == IF c = <<>> THEN 0 ELSE Head(c)[2] + SumCounts(Tail(c))

\* The spans <<i, j>> of s that are maximal runs of word characters.
TokenSpans(s) ==
  {sp \in (1..Len(s)) \X (1..Len(s)) :
     /\ sp[1] <= sp[2]
     /\ \A k \in sp[1]..sp[2] : s[k] \in WordChars
     /\ (sp[1] = 1 \/ s[sp[1] - 1] \notin WordChars)
     /\ (sp[2] = Len(s) \/ s[sp[2] + 1] \notin WordChars)}

TokenSet(s) == {SubSeq(s, sp[1], sp[2]) : sp \in TokenSpans(s)}

Occurrences(s, w) == Cardinality({sp \in TokenSpans(s) : SubSeq(s, sp[1], sp[2]) = w})

\* Where token w first starts in s.
FirstAt(s, w) ==
  LET starts == {sp[1] : sp \in {x \in TokenSpans(s) : SubSeq(s, x[1], x[2]) = w}}
  IN  CHOOSE i \in starts : \A j \in starts : i <= j

\* The number of segments text splits into at the code points of breaks, CR LF
\* being one boundary, an empty segment after a final boundary not counted.
SegmentCount(t, breaks) ==
  Cardinality({i \in 1..Len(t) :
                 t[i] \in breaks /\ ~(t[i] = 13 /\ i < Len(t) /\ t[i + 1] = 10)})
  + (IF t # <<>> /\ t[Len(t)] \notin breaks THEN 1 ELSE 0)

\* t without its final boundary (CR LF is removed whole).
StripFinalBreak(t) ==
  IF Len(t) >= 2 /\ t[Len(t) - 1] = 13 /\ t[Len(t)] = 10
    THEN SubSeq(t, 1, Len(t) - 2)
    ELSE SubSeq(t, 1, Len(t) - 1)

UniversalNewlines == {10, 13}

\* VT, FF, FS, GS, RS, NEL, LS, PS.
OtherLineBreaks == {11, 12, 28, 29, 30, 133, 8232, 8233}

TheTheTHECat == <<84, 104, 101, 32, 116, 104, 101, 32, 84, 72, 69, 32, 99, 97, 116>>

\* ---------------------------------------------------------------------- C1
\* C1: the counts of character_frequency add up to character_count, for every
\* text.
C1_FrequencySumIsCharacterCount ==
  pc = "returned" =>
    SumCounts(result.character_frequency) = result.statistics.character_count

\* ---------------------------------------------------------------------- C2
\* C2: character_count is the number of characters of the text given.
C2_CharacterCountIsLength ==
  pc = "returned" => result.statistics.character_count = Len(text)

\* A call has returned for a text whose lower-cased form is longer than itself.
C2_Witness ==
  /\ pc = "returned"
  /\ Len(lower(text)) > Len(text)
  /\ result.statistics.character_count = Len(text)

\* ---------------------------------------------------------------------- C3
\* C3: top_words maps tokens of the lower-cased text (maximal runs of word
\* characters) to their numbers of occurrences, holds the min(10, number of
\* distinct tokens) most frequent ones in descending order of count, and among
\* tokens of equal count orders and selects by first occurrence; "The the THE
\* cat" gives the=3 then cat=1.
C3_TopWords ==
  pc = "returned" =>
    LET tw == result.top_words
        s  == lower(text)
    IN  /\ Len(tw) = Min(10, Cardinality(TokenSet(s)))
        /\ \A k \in 1..Len(tw) :
             tw[k][1] \in TokenSet(s) /\ tw[k][2] = Occurrences(s, tw[k][1])
        /\ \A a, b \in 1..Len(tw) :
             a < b => \/ tw[a][2] > tw[b][2]
                      \/ /\ tw[a][2] = tw[b][2]
                         /\ FirstAt(s, tw[a][1]) < FirstAt(s, tw[b][1])
        /\ \A w \in TokenSet(s) \ {tw[k][1] : k \in 1..Len(tw)} :
             \A k \in 1..Len(tw) :
               \/ tw[k][2] > Occurrences(s, w)
               \/ /\ tw[k][2] = Occurrences(s, w)
                  /\ FirstAt(s, tw[k][1]) < FirstAt(s, w)
        /\ text = TheTheTHECat =>
             tw = << <<(<<116, 104, 101>>), 3>>, <<(<<99, 97, 116>>), 1>> >>

\* A call has returned for a text of more than ten distinct tokens, two of which
\* tie for the first place, and one token of the lowest count was left out.
C3_Witness ==
  /\ pc = "returned"
  /\ Cardinality(TokenSet(lower(text))) > 10
  /\ Len(result.top_words) = 10
  /\ result.top_words[1][2] = 2
  /\ result.top_words[2][2] = 2
  /\ result.top_words[10][2] = 1

\* ---------------------------------------------------------------------- C4
\* C4 as stated: line_count is the number of segments between the boundaries LF,
\* CR LF and CR only, and a text ending in one has the line_count of the same
\* text without it.
C4_LineCountUniversalNewlinesOnly ==
  pc = "returned" =>
    /\ result.statistics.line_count = SegmentCount(text, UniversalNewlines)
    /\ (text # <<>> /\ text[Len(text)] \in UniversalNewlines) =>
         result.statistics.line_count = line_count(StripFinalBreak(text))

\* C4 as amended: line_count is the number of segments between the boundaries
\* of str.splitlines (LF, CR LF, CR, VT, FF, FS, GS, RS, NEL, LS, PS), an empty
\* segment after a final boundary not counted; a text ending in a boundary has
\* the line_count of the text without it when that text is not empty and does
\* not end in a boundary itself; the empty text has line_count 0.
C4_LineCountSplitlines ==
  pc = "returned" =>
    LET breaks == UniversalNewlines \cup OtherLineBreaks
        rest   == StripFinalBreak(text)
    IN  /\ result.statistics.line_count = SegmentCount(text, breaks)
        /\ (/\ text # <<>>
            /\ text[Len(text)] \in breaks
            /\ rest # <<>>
            /\ rest[Len(rest)] \notin breaks) =>
             result.statistics.line_count = line_count(rest)
        /\ text = <<>> => result.statistics.line_count = 0

\* A call has returned for a text that ends in a boundary and holds another
\* boundary that is none of LF, CR: two lines.
C4_Witness ==
  /\ pc = "returned"
  /\ Len(text) = 4
  /\ text[2] \in OtherLineBreaks
  /\ text[4] \in OtherLineBreaks
  /\ text[3] \notin UniversalNewlines \cup OtherLineBreaks
  /\ result.statistics.line_count = 2

\* ---------------------------------------------------------------------- C9
\* C9: for the empty text every count is 0 and both tables are empty.
C9_EmptyText ==
  (pc = "returned" /\ text = <<>>) =>
    result = [statistics |-> [character_count |-> 0, word_count |-> 0, line_count |-> 0],
              character_frequency |-> <<>>,
              top_words |-> <<>>]

\* The call for the empty text has returned.
C9_Witness == pc = "returned" /\ text = <<>> /\ result # Unset

\* ---------------------------------------------------------------------- C5
\* C5: a call with a negative table size fails with InvalidArgument and returns
\* no result.
C5_NegativeTopNFails ==
  \A i \in 1..Len(log) :
    log[i].topN < 0 => log[i].outcome = "InvalidArgument" /\ log[i].result = Unset

\* ---------------------------------------------------------------------- C6
\* C6: for one text and table sizes 0 <= n1 <= n2, the calls return and the table
\* returned for n1 is the first n1 entries of the table returned for n2; for
\* size 0 it is empty. A call without a table size is one for the default, 10.
C6_MonotonicTruncation ==
  \A i, j \in 1..Len(log) :
    /\ 0 <= log[i].topN => log[i].outcome = "returned"
    /\ (log[i].topN = 0 => log[i].result.top_words = <<>>)
    /\ (/\ log[i].text = log[j].text
        /\ 0 <= log[i].topN
        /\ log[i].topN <= log[j].topN) =>
         log[i].result.top_words =
           SubSeq(log[j].result.top_words, 1,
                  Min(log[i].topN, Len(log[j].result.top_words)))

\* ---------------------------------------------------------------------- C8
\* C8: whatever the interleaving of the callers' statements, the result of every
\* call is that of a lone call on its text, so calls on equal texts return equal
\* results.
C8_CallsAreIndependent ==
  \A c \in Callers :
    cpc[c] = "done" =>
      /\ cresult[c] = analyze_text(ctext[c])
      /\ \A d \in Callers :
           (cpc[d] = "done" /\ ctext[d] = ctext[c]) => cresult[d] = cresult[c]

\* Two calls on different texts have returned, each overlapped by statements of
\* the other.
C8_Witness ==
  /\ cpc[1] = "done" /\ cpc[2] = "done"
  /\ overlap[1] /\ overlap[2]
  /\ ctext[1] # ctext[2]
  /\ cresult[1] # cresult[2]

\* ---------------------------------------------------------------------- C7
\* C7: read_file and list_files never raise: whatever is at the path, and
\* however it changes during the call, read_file returns the contents or a
\* string that starts "Error", list_files the listing or a mapping with the
\* key "error".
C7_FileToolsNeverRaise ==
  /\ raised = "none"
  /\ fpc = "done" =>
       /\ ret # NoValue
       /\ tool = "read_file" =>
            DOMAIN ret \in {{"file_contents"}, {"error_string"}}
       /\ tool = "list_files" =>
            DOMAIN ret \in {{"files", "directories"}, {"error"}}

\* read_file has returned the error made of the exception of a file that could
\* be opened and not decoded, and the path has changed since the call began:
\* nothing is at it any more.
C7_Witness ==
  /\ fpc = "done"
  /\ tool = "read_file"
  /\ raised = "none"
  /\ kind = "missing"
  /\ ret = [error_string |-> "Error reading file: UnicodeDecodeError"]

\* --------------------------------------------------------------------- C10
\* C10: in every listing returned by list_files no name is in both "files" and
\* "directories", and every name listed is one that os.listdir returned, also
\* when entries are replaced or removed during the call.
C10_ListingIsConsistent ==
  (fpc = "done" /\ tool = "list_files" /\ DOMAIN ret = {"files", "directories"}) =>
    LET Range(q) == {q[i] : i \in 1..Len(q)}
    IN  /\ Range(ret.files) \cap Range(ret.directories) = {}
        /\ Range(ret.files) \cup Range(ret.directories) \subseteq Range(contents)
====
